---------------------------- MODULE Spec2Model ----------------------------
(***************************************************************************)
(* A model of pants' JvmDependencyAnalyzer                                 *)
(* (src/python/pants/backend/jvm/tasks/jvm_dependency_analyzer.py):        *)
(*   - _compute_transitive_deps_by_target  (specification ClosureSpec),    *)
(*   - targets_by_file                     (specification IndexSpec),      *)
(*   - bootstrap_jar_classfiles            (specification BootSpec).       *)
(* The three computations share no state; each specification runs one of   *)
(* them and leaves the variables of the other two at their idle values.    *)
(***************************************************************************)
EXTENDS Naturals, Sequences, FiniteSets, TLC

VARIABLES
  pc,                         \* position of the running computation
  \* ---- _compute_transitive_deps_by_target
  context_targets,            \* self.context.targets(): the targets of the run
  dependencies,               \* target.dependencies, for every target of the build graph
  java_sources,               \* target.java_sources ({} when the attribute is absent or empty)
  sorted_targets,             \* reversed(sort_targets(self.context.targets()))
  next_target,                \* position of the for loop of line 172 in sorted_targets
  transitive_deps_by_target,  \* the defaultdict(set) of line 170
  \* ---- targets_by_file
  run_targets,                \* self.context.targets() in its iteration order
  jar_dependencies,           \* for each JarLibrary target, the (org, name) of its jars
  set_order,                  \* iteration order of a Python set of targets
  classes_by_target,          \* products 'classes_by_target': (tgt, classes_dir, classes)
  ivy_products,               \* products 'ivy_jar_products' (Null when absent)
  ivy_resolve_symlink_map,    \* products 'ivy_resolve_symlink_map', shared and live
  symlink_map_lock,           \* holder of IvyTaskMixin.symlink_map_lock
  all_symlinks_map,           \* the copy of line 92 (Null before it is made)
  jarlibs_by_id,              \* defaultdict(set) of line 60
  targets_by_file,            \* defaultdict(OrderedSet) of line 57
  refs_todo,                  \* (ivyinfo, ref) pairs the loops of lines 118-120 still visit
  opened,                     \* archive path -> number of open_zip calls so far
  \* ---- bootstrap_jar_classfiles
  system_properties,          \* DistributionLocator.cached().system_properties
  fs,                         \* the entries of the file system the JVM's paths name
  cwd,                        \* the working directory of the pants process
  listdir_order,              \* directory -> its names in the order os.listdir yields them
  bootstrap_jars,             \* the list _find_all_bootstrap_jars returns (line 163)
  next_jar,                   \* position of the for loop of line 136 in bootstrap_jars
  bootstrap_jar_classfiles    \* the set of line 135

closure_vars == <<context_targets, dependencies, java_sources, sorted_targets,
                  next_target, transitive_deps_by_target>>

index_vars == <<run_targets, jar_dependencies, set_order, classes_by_target, ivy_products,
                ivy_resolve_symlink_map, symlink_map_lock, all_symlinks_map,
                jarlibs_by_id, targets_by_file, refs_todo, opened>>

boot_vars == <<system_properties, fs, cwd, listdir_order, bootstrap_jars, next_jar,
               bootstrap_jar_classfiles>>

vars == <<pc, closure_vars, index_vars, boot_vars>>

(***************************************************************************)
(* Bounds of the model.                                                    *)
(***************************************************************************)
NumTargets == 3        \* targets of the build graph
MaxEdges == 3          \* dependency edges plus java_sources edges of the build graph
NumRefs == 2           \* module references of the ivy resolution report
MaxJarDeps == 1        \* jars one JarLibrary target declares

(***************************************************************************)
(* Helpers.                                                                *)
(***************************************************************************)
Range(s) == {s[i] : i \in DOMAIN s}

Reverse(s) == [i \in 1..Len(s) |-> s[Len(s) + 1 - i]]

\* The sequences that list every member of S once.
Perms(S) == {s \in [1..Cardinality(S) -> S] : \A i, j \in DOMAIN s : s[i] = s[j] => i = j}

\* Python's None, and a value that is not None.
Null == <<>>
Some(x) == <<x>>

\* Position of x in the sequence s (0 when absent).
IndexOf(s, x) == IF x \in Range(s) THEN CHOOSE i \in DOMAIN s : s[i] = x ELSE 0

\* The variables of a computation that is not running.
ClosureIdle ==
  /\ context_targets = {}
  /\ dependencies = <<>>
  /\ java_sources = <<>>
  /\ sorted_targets = <<>>
  /\ next_target = 0
  /\ transitive_deps_by_target = <<>>

IndexIdle ==
  /\ run_targets = <<>>
  /\ jar_dependencies = <<>>
  /\ set_order = <<>>
  /\ classes_by_target = <<>>
  /\ ivy_products = Null
  /\ ivy_resolve_symlink_map = Null
  /\ symlink_map_lock = "free"
  /\ all_symlinks_map = Null
  /\ jarlibs_by_id = <<>>
  /\ targets_by_file = <<>>
  /\ refs_todo = <<>>
  /\ opened = <<>>

BootIdle ==
  /\ system_properties = <<>>
  /\ fs = {}
  /\ cwd = ""
  /\ listdir_order = <<>>
  /\ bootstrap_jars = <<>>
  /\ next_jar = 0
  /\ bootstrap_jar_classfiles = {}

(***************************************************************************)
(*                _compute_transitive_deps_by_target                       *)
(***************************************************************************)
Targets == 1..NumTargets

\* A dependency edge <<"dep", t, d>>: d is in t.dependencies.  The build graph
\* rejects dependency cycles, so the targets can be numbered with every
\* dependency below its dependent.
DepEdges == {<<"dep", t, d>> : t \in Targets, d \in Targets} \cap
            {e \in {"dep"} \X Targets \X Targets : e[3] < e[2]}

\* A nested edge <<"java", t, j>>: j is in t.java_sources.  java_sources are not
\* dependencies: j may depend back on t, and j need not be a target of the run.
JavaEdges == {"java"} \X Targets \X Targets

\* dict.get(key, []) of line 175, read as a set.
MapGet(m, k) == IF k \in DOMAIN m THEN m[k] ELSE {}

\* m[k] = v on a dict.
MapAssign(m, k, v) == [x \in DOMAIN m \cup {k} |-> IF x = k THEN v ELSE m[x]]

\* The targets reachable from the roots R over dependency edges.
RECURSIVE DepClosure(_, _)
DepClosure(deps, R) ==
  LET more == R \cup UNION {deps[t] : t \in R}
  IN  IF more = R THEN R ELSE DepClosure(deps, more)

\* sort_targets: the targets "sorted from most dependent to least": every target
\* stands before each of its dependencies.  Any such order may be returned.
sort_targets(ts) ==
  {s \in Perms(ts) :
     \A i, j \in DOMAIN s : s[j] \in dependencies[s[i]] => i < j}

\* Lines 173-176: the set accumulated for one target from its own dependencies.
TransitiveDepsMerged(m, target) ==
  UNION {MapGet(m, dep) \cup {dep} : dep \in dependencies[target]}
    \cup UNION {dependencies[j] : j \in java_sources[target]}

TransitiveDepsDirectOnly(m, target) == dependencies[target]

TransitiveDeps(m, target) ==
  UNION {MapGet(m, dep) \cup {dep} : dep \in dependencies[target]}

\* Lines 180-183: each dependency of each java_sources target is added to that
\* target's own entry; the defaultdict creates the entry on the first add.
RegisterJavaSources(m, target) ==
  LET touched == {j \in java_sources[target] : dependencies[j] # {}}
  IN  [j \in DOMAIN m \cup touched |->
         IF j \in touched THEN MapGet(m, j) \cup dependencies[j] ELSE m[j]]

\* Line 185.
StoreIndented(m, target, deps) ==
  IF java_sources[target] # {} THEN MapAssign(m, target, deps) ELSE m

StoreTransitiveDeps(m, target, deps) == MapAssign(m, target, deps)

ClosureInit ==
  /\ pc = "closure_start"
  /\ \E E \in SUBSET (DepEdges \cup JavaEdges) :
       /\ Cardinality(E) <= MaxEdges
       /\ dependencies = [t \in Targets |-> {d \in Targets : <<"dep", t, d>> \in E}]
       /\ java_sources = [t \in Targets |-> {j \in Targets : <<"java", t, j>> \in E}]
  /\ \E roots \in SUBSET Targets : context_targets = DepClosure(dependencies, roots)
  /\ sorted_targets = <<>>
  /\ next_target = 1
  /\ transitive_deps_by_target = <<>>
  /\ IndexIdle
  /\ BootIdle

\* Lines 169-170.
SortTargets ==
  /\ pc = "closure_start"
  /\ \E s \in sort_targets(context_targets) : sorted_targets' = Reverse(s)
  /\ next_target' = 1
  /\ transitive_deps_by_target' = <<>>
  /\ pc' = "closure_loop"
  /\ UNCHANGED <<context_targets, dependencies, java_sources, index_vars, boot_vars>>

\* One iteration of the loop of lines 172-185.
ProcessTarget ==
  /\ pc = "closure_loop"
  /\ next_target <= Len(sorted_targets)
  /\ LET target == sorted_targets[next_target]
         transitive_deps == TransitiveDeps(transitive_deps_by_target, target)
         m1 == RegisterJavaSources(transitive_deps_by_target, target)
     IN  transitive_deps_by_target' = StoreTransitiveDeps(m1, target, transitive_deps)
  /\ next_target' = next_target + 1
  /\ UNCHANGED <<pc, context_targets, dependencies, java_sources, sorted_targets, index_vars, boot_vars>>

\* Line 186.
ReturnClosure ==
  /\ pc = "closure_loop"
  /\ next_target > Len(sorted_targets)
  /\ pc' = "closure_done"
  /\ UNCHANGED <<closure_vars, index_vars, boot_vars>>

ClosureNext == SortTargets \/ ProcessTarget \/ ReturnClosure

ClosureSpec == ClosureInit /\ [][ClosureNext]_vars

\* The loop is run by one thread that is never suspended for ever.
ClosureLiveSpec == ClosureSpec /\ WF_vars(ClosureNext)

(***************************************************************************)
(* Claims about _compute_transitive_deps_by_target.                        *)
(***************************************************************************)
\* A java_sources target that depends back on the target that lists it.
HasBackEdge ==
  \E t \in context_targets : \E j \in java_sources[t] : t \in dependencies[j]

\* C1 as claimed: in the returned map, every target T with an entry (a target of
\* the run or a nested java_sources target) holds each of its direct
\* dependencies D and every member of D's entry.
C1_Original ==
  pc = "closure_done" =>
    \A t \in DOMAIN transitive_deps_by_target : \A d \in dependencies[t] :
      /\ d \in transitive_deps_by_target[t]
      /\ MapGet(transitive_deps_by_target, d) \subseteq transitive_deps_by_target[t]

\* C1 (amended): in the returned map, every target T with an entry holds each of
\* its direct dependencies D; when T is a target of the run, its entry also holds
\* every member of D's entry.
C1_RunTargetsHoldClosureOfDeps ==
  pc = "closure_done" =>
    \A t \in DOMAIN transitive_deps_by_target : \A d \in dependencies[t] :
      /\ d \in transitive_deps_by_target[t]
      /\ t \in context_targets =>
           MapGet(transitive_deps_by_target, d) \subseteq transitive_deps_by_target[t]

C1_Witness ==
  /\ pc = "closure_done"
  /\ \E t \in context_targets : \E d \in dependencies[t] :
       /\ MapGet(transitive_deps_by_target, d) # {}
       /\ MapGet(transitive_deps_by_target, d) \subseteq transitive_deps_by_target[t]

\* C4: with a java_sources target that depends back on its outer target, the
\* computation ends and the returned map has an entry for every target of the run.
C4_BackEdgeTerminates ==
  HasBackEdge =>
    <>(/\ pc = "closure_done"
       /\ \A t \in context_targets : t \in DOMAIN transitive_deps_by_target)

C4_Witness ==
  /\ pc = "closure_done"
  /\ HasBackEdge
  /\ \A t \in context_targets : t \in DOMAIN transitive_deps_by_target

\* C10: for every processed target T, the entry of T is exactly the union over
\* T's own dependencies D of {D} and D's entry (nothing of its java_sources
\* targets' dependencies is merged into it), and every dependency of each
\* java_sources target J of T is in J's own entry.
C10_NestedDepsKeptApart ==
  \A i \in 1..(next_target - 1) :
    LET t == sorted_targets[i] IN
      /\ t \in DOMAIN transitive_deps_by_target
      /\ transitive_deps_by_target[t] =
           UNION {{d} \cup MapGet(transitive_deps_by_target, d) : d \in dependencies[t]}
      /\ \A j \in java_sources[t] :
           dependencies[j] \subseteq MapGet(transitive_deps_by_target, j)

C10_Witness ==
  /\ pc = "closure_done"
  /\ \E t \in context_targets : \E j \in java_sources[t] :
       /\ dependencies[t] # {}
       /\ dependencies[j] # {}
       /\ j \notin context_targets
       /\ ~(dependencies[j] \subseteq transitive_deps_by_target[t])
       /\ dependencies[j] \subseteq transitive_deps_by_target[j]

(***************************************************************************)
(*                          targets_by_file                                *)
(***************************************************************************)
\* The targets of the build graph the index is built for, by class.
JvmTargets == {"app", "jsrc"}          \* isinstance(target, JvmTarget)
ScalaLibraries == {"app"}              \* isinstance(target, ScalaLibrary)
JarLibraries == {"liba", "libb"}       \* isinstance(target, JarLibrary)

\* target.sources_relative_to_buildroot()
sources_relative_to_buildroot(t) ==
  CASE t = "app"  -> <<"src/scala/A.scala">>
    [] t = "jsrc" -> <<"src/java/B.java">>
    [] OTHER      -> <<>>

\* target.java_sources of a ScalaLibrary
JavaSourcesOf(t) == IF t = "app" THEN <<"jsrc">> ELSE <<>>

\* get_buildroot()
buildroot == "/repo"

\* os.path.join(a, b)
PathJoin(a, b) ==
  IF Len(b) > 0 /\ SubSeq(b, 1, 1) = "/" THEN b
  ELSE IF a = "" \/ SubSeq(a, Len(a), Len(a)) = "/" THEN a \o b
  ELSE a \o "/" \o b

\* str.endswith
EndsWith(s, suffix) ==
  Len(s) >= Len(suffix) /\ SubSeq(s, Len(s) - Len(suffix) + 1, Len(s)) = suffix

\* The module references of the resolution report; RefKey is (ref.org, ref.name).
Refs == 1..NumRefs
RefKeyTable == [r \in Refs |-> <<"acme", "m" \o ToString(r)>>]
RefKey(r) == RefKeyTable[r]
RefKeys == {RefKey(r) : r \in Refs}

\* ivyinfo.modules_by_ref[ref].artifact: the jar in the ivy cache.
ArtifactTable == [r \in Refs |-> "/ivy/cache/m" \o ToString(r) \o ".jar"]
Artifact(r) == ArtifactTable[r]

\* os.path.realpath: the cache entries of the even modules are links into a store.
StoreTable == [r \in Refs |-> "/ivy/store/m" \o ToString(r) \o ".jar"]
RealPath(p) ==
  IF \E r \in Refs : r % 2 = 0 /\ p = Artifact(r)
  THEN StoreTable[CHOOSE r \in Refs : p = Artifact(r)]
  ELSE p

\* The link an ivy resolve creates for a jar and records in the symlink map,
\* keyed by the jar's real path.
ResolvedLinkTable == [r \in Refs |-> "/resolve/m" \o ToString(r) \o ".jar"]
ResolvedLink(r) == ResolvedLinkTable[r]

\* jar.namelist() of the archive at a path (the cache entry, the real file and
\* the resolved link of one module are the same archive).
JarContents ==
  [r \in Refs |-> <<"com/acme/C" \o ToString(r) \o ".class", "W.class", "META-INF/MANIFEST.MF">>]
\* jar.namelist() of the archives of the JVM and of the working directory.
JvmArchives ==
  [path \in {"/jdk/endorsed/e.jar", "/jdk/ext/x.jar", "/jdk/ext/y.jar", "/jdk/lib/rt.jar",
              "/work/x.jar"} |->
     IF path = "/jdk/endorsed/e.jar" THEN <<"javax/E.class">>
     ELSE IF path = "/jdk/ext/x.jar" THEN <<"META-INF/MANIFEST.MF", "ext/X.class">>
     ELSE IF path = "/jdk/ext/y.jar" THEN <<"ext/Y.class">>
     ELSE IF path = "/jdk/lib/rt.jar" THEN <<"java/lang/Object.class", "rt.properties">>
     ELSE <<"work/Y.class">>]
namelist(path) ==
  IF path \in DOMAIN JvmArchives THEN JvmArchives[path]
  ELSE JarContents[CHOOSE r \in Refs :
                     path \in {Artifact(r), RealPath(Artifact(r)), ResolvedLink(r)}]

\* _jar_classfiles, lines 125-130.
jar_classfiles(jar_file) ==
  SelectSeq(namelist(jar_file), LAMBDA cls : EndsWith(cls, ".class"))

\* OrderedSet.add
OrderedSetAddFirst(s, x) == IF x \in Range(s) THEN s ELSE <<x>> \o s

OrderedSetAdd(s, x) == IF x \in Range(s) THEN s ELSE Append(s, x)

\* targets_by_file[key].add(t) on the defaultdict(OrderedSet)
Register(tbf, key, t) ==
  [k \in DOMAIN tbf \cup {key} |->
     IF k = key THEN OrderedSetAdd(IF k \in DOMAIN tbf THEN tbf[k] ELSE <<>>, t)
     ELSE tbf[k]]

RECURSIVE RegisterKeys(_, _, _)
RegisterKeys(tbf, keys, t) ==
  IF keys = <<>> THEN tbf
  ELSE RegisterKeys(Register(tbf, Head(keys), t), Tail(keys), t)

RECURSIVE RegisterOwners(_, _, _)
RegisterOwners(tbf, key, owners) ==
  IF owners = <<>> THEN tbf
  ELSE RegisterOwners(Register(tbf, key, Head(owners)), key, Tail(owners))

AbsSources(t) ==
  [i \in DOMAIN sources_relative_to_buildroot(t) |->
     PathJoin(buildroot, sources_relative_to_buildroot(t)[i])]

RECURSIVE JavaSourceKeys(_)
JavaSourceKeys(js) ==
  IF js = <<>> THEN <<>> ELSE AbsSources(Head(js)) \o JavaSourceKeys(Tail(js))

\* Lines 66-77 for the targets ts, in order, from the maps tbf and ids.
RECURSIVE MapSourcesOf(_, _, _)
MapSourcesOf(ts, tbf, ids) ==
  IF ts = <<>> THEN [tbf |-> tbf, ids |-> ids]
  ELSE
    LET target == Head(ts)
        tbf1 == IF target \in JvmTargets
                THEN RegisterKeys(tbf, AbsSources(target), target) ELSE tbf
        mine == IF target \notin JvmTargets /\ target \in JarLibraries
                THEN jar_dependencies[target] ELSE {}
        ids1 == [k \in DOMAIN ids \cup mine |->
                   (IF k \in DOMAIN ids THEN ids[k] ELSE {})
                     \cup (IF k \in mine THEN {target} ELSE {})]
        tbf2 == IF target \in ScalaLibraries
                THEN RegisterKeys(tbf1, JavaSourceKeys(JavaSourcesOf(target)), target)
                ELSE tbf1
    IN  MapSourcesOf(Tail(ts), tbf2, ids1)

\* Lines 84-86 for the classes of one (tgt, classes_dir).
RECURSIVE RegisterClasses(_, _, _, _)
RegisterClasses(tbf, tgt, classes_dir, classes) ==
  IF classes = <<>> THEN tbf
  ELSE LET cls == Head(classes)
           tbf1 == Register(tbf, cls, tgt)
           tbf2 == Register(tbf1, PathJoin(classes_dir, cls), tgt)
       IN  RegisterClasses(tbf2, tgt, classes_dir, Tail(classes))

\* Lines 82-86 for the items of classes_by_target, in order.
RECURSIVE MapClassesOf(_, _)
MapClassesOf(items, tbf) ==
  IF items = <<>> THEN tbf
  ELSE MapClassesOf(Tail(items),
                    RegisterClasses(tbf, Head(items)[1], Head(items)[2], Head(items)[3]))

\* Line 92: m.copy() if m is not None else {}
CopyOf(m) == IF m # Null THEN m[1] ELSE <<>>

\* Line 110: all_symlinks_map.get(os.path.realpath(jar_file), None)
LookupSymlinkLive(jar_file) ==
  LET real == RealPath(jar_file)
      live == CopyOf(ivy_resolve_symlink_map)
  IN  IF real \in DOMAIN live THEN Some(live[real]) ELSE Null

LookupSymlinkOrSelf(jar_file) ==
  LET real == RealPath(jar_file)
  IN  IF real \in DOMAIN all_symlinks_map[1] THEN Some(all_symlinks_map[1][real])
      ELSE Some(jar_file)

LookupSymlink(jar_file) ==
  LET real == RealPath(jar_file)
  IN  IF real \in DOMAIN all_symlinks_map[1] THEN Some(all_symlinks_map[1][real]) ELSE Null

\* Line 111: if symlink
Truthy(symlink) == symlink # Null /\ symlink[1] # ""

\* The modules reachable from the modules R over the report's dependency edges.
RECURSIVE ModuleClosure(_, _)
ModuleClosure(deps, R) ==
  LET more == R \cup UNION {deps[r] : r \in R}
  IN  IF more = R THEN R ELSE ModuleClosure(deps, more)

\* get_transitive_jars_by_ref, lines 98-101: the artifact of ref and of every
\* module it depends on, transitively, as one set.
get_transitive_jars_by_ref(ivyinfo, ref) ==
  {Artifact(r) : r \in ModuleClosure(ivyinfo.deps, {ref})}

\* Calls of _jar_classfiles (each opens the archive) made for one jar of one
\* module reference: line 112 stands outside the loop over the targets.
OpensPerJar(jarlib_targets) == 1

\* Lines 112-114 for one opened archive.
RECURSIVE RegisterJarClasses(_, _, _)
RegisterJarClasses(tbf, classes, owners) ==
  IF classes = <<>> THEN tbf
  ELSE RegisterJarClasses(RegisterOwners(tbf, Head(classes), owners), Tail(classes), owners)

\* Lines 108-114 for the jar files in jars.
RECURSIVE RegisterJars(_, _, _)
RegisterJars(tbf, jars, owners) ==
  IF jars = {} THEN tbf
  ELSE LET jar_file == CHOOSE j \in jars : TRUE
           symlink == LookupSymlink(jar_file)
           tbf1 == IF Truthy(symlink)
                   THEN RegisterJarClasses(tbf, jar_classfiles(symlink[1]), owners)
                   ELSE tbf
       IN  RegisterJars(tbf1, jars \ {jar_file}, owners)

\* The archives opened by lines 108-112 for the jar files in jars, counted.
OpenedAfter(jars, jarlib_targets) ==
  LET paths == {LookupSymlink(j)[1] : j \in {j \in jars : Truthy(LookupSymlink(j))}}
  IN  [p \in DOMAIN opened \cup paths |->
         (IF p \in DOMAIN opened THEN opened[p] ELSE 0)
           + (IF p \in paths
              THEN Cardinality({j \in jars : LookupSymlink(j) = Some(p)})
                     * OpensPerJar(jarlib_targets)
              ELSE 0)]

\* Line 117: if ivy_products
IvyProductsAlwaysTruthy(p) == TRUE

IvyProductsTruthy(p) == p # Null /\ DOMAIN p[1] # {}

\* Lines 118-120: the (ivyinfo, ref) pairs in the order the loops visit them.
RECURSIVE RefsOfInfos(_)
RefsOfInfos(ivyinfos) ==
  IF ivyinfos = <<>> THEN <<>>
  ELSE [i \in DOMAIN Head(ivyinfos).modules_by_ref |->
          <<Head(ivyinfos), Head(ivyinfos).modules_by_ref[i]>>]
         \o RefsOfInfos(Tail(ivyinfos))

RECURSIVE RefsOfConfs(_, _)
RefsOfConfs(products, confs) ==
  IF confs = {} THEN <<>>
  ELSE LET conf == CHOOSE c \in confs : TRUE
       IN  RefsOfInfos(products[conf]) \o RefsOfConfs(products, confs \ {conf})

(***************************************************************************)
(* The inputs of one build of the index.                                   *)
(***************************************************************************)
\* The builds the index is made for: the targets of the run in their iteration
\* order, with the classes the compile produced for them.  In the second the
\* java_sources target of app is not a target of the run and nothing was compiled.
Builds ==
  {[targets |-> <<"app", "jsrc", "liba", "libb">>,
    classes |-> << <<"app", "/out/app", <<"W.class", "X.class">>>>,
                   <<"jsrc", "/out/jsrc", <<"B.class">>>> >>],
   [targets |-> <<"libb", "liba", "app">>,
    classes |-> <<>>]}

\* The dependency edges of a report lead from a module to modules of higher number.
IvyInfos ==
  {[modules_by_ref |-> order, deps |-> d] :
     order \in Perms(Refs),
     d \in {d \in [Refs -> SUBSET Refs] : \A r \in Refs : \A q \in d[r] : q > r}}

Confs == {"default"}

\* The same report under two configurations (one value per configuration, so the
\* order of ivy_products.values() makes no difference).
TwoConfs == {"default", "test"}

IvyProductsChoices ==
  {Null, Some(<<>>)}
    \cup {Some([c \in Confs |-> <<info>>]) : info \in IvyInfos}
    \cup {Some([c \in TwoConfs |-> <<info>>]) :
            info \in {i \in IvyInfos : \A r \in Refs : i.modules_by_ref[r] = r}}

FullSymlinkMap == [p \in {RealPath(Artifact(r)) : r \in Refs} |->
                     ResolvedLink(CHOOSE r \in Refs : RealPath(Artifact(r)) = p)]

\* The live map when the build starts: absent, empty, holding the first module's
\* jar only, or holding every jar.
SymlinkMapChoices ==
  {Null, Some(<<>>), Some(FullSymlinkMap),
   Some([p \in {RealPath(Artifact(1))} |-> ResolvedLink(1)])}

IndexInit ==
  /\ pc = "map_sources"
  /\ \E build \in Builds : /\ run_targets = build.targets
                            /\ classes_by_target = build.classes
  /\ jar_dependencies \in
       [JarLibraries -> {S \in SUBSET RefKeys : Cardinality(S) <= MaxJarDeps}]
  /\ set_order \in Perms(JarLibraries)
  /\ ivy_products \in IvyProductsChoices
  /\ ivy_resolve_symlink_map \in SymlinkMapChoices
  /\ symlink_map_lock = "free"
  /\ all_symlinks_map = Null
  /\ jarlibs_by_id = <<>>
  /\ targets_by_file = <<>>
  /\ refs_todo = <<>>
  /\ opened = <<>>
  /\ ClosureIdle
  /\ BootIdle

\* Lines 57-77.
MapSources ==
  /\ pc = "map_sources"
  /\ LET r == MapSourcesOf(run_targets, <<>>, <<>>)
     IN  /\ targets_by_file' = r.tbf
         /\ jarlibs_by_id' = r.ids
  /\ pc' = "map_classes"
  /\ UNCHANGED <<run_targets, jar_dependencies, set_order, classes_by_target, ivy_products,
                 ivy_resolve_symlink_map, symlink_map_lock, all_symlinks_map,
                 refs_todo, opened, closure_vars, boot_vars>>

\* Lines 80-86.
MapClasses ==
  /\ pc = "map_classes"
  /\ targets_by_file' = MapClassesOf(classes_by_target, targets_by_file)
  /\ pc' = "lock"
  /\ UNCHANGED <<run_targets, jar_dependencies, set_order, classes_by_target, ivy_products,
                 ivy_resolve_symlink_map, symlink_map_lock, all_symlinks_map,
                 jarlibs_by_id, refs_todo, opened, closure_vars, boot_vars>>

\* Line 90: entering the with block.
AcquireLock ==
  /\ pc = "lock"
  /\ symlink_map_lock = "free"
  /\ symlink_map_lock' = "analyzer"
  /\ pc' = "copy"
  /\ UNCHANGED <<run_targets, jar_dependencies, set_order, classes_by_target, ivy_products,
                 ivy_resolve_symlink_map, all_symlinks_map, jarlibs_by_id,
                 targets_by_file, refs_todo, opened, closure_vars, boot_vars>>

\* Lines 91-92.
CopySymlinkMap ==
  /\ pc = "copy"
  /\ all_symlinks_map' = Some(CopyOf(ivy_resolve_symlink_map))
  /\ pc' = "unlock"
  /\ UNCHANGED <<run_targets, jar_dependencies, set_order, classes_by_target, ivy_products,
                 ivy_resolve_symlink_map, symlink_map_lock, jarlibs_by_id,
                 targets_by_file, refs_todo, opened, closure_vars, boot_vars>>

\* Line 93: leaving the with block.
ReleaseLock ==
  /\ pc = "unlock"
  /\ symlink_map_lock' = "free"
  /\ pc' = "ivy"
  /\ UNCHANGED <<run_targets, jar_dependencies, set_order, classes_by_target, ivy_products,
                 ivy_resolve_symlink_map, all_symlinks_map, jarlibs_by_id,
                 targets_by_file, refs_todo, opened, closure_vars, boot_vars>>

\* Lines 116-120: the report is fetched and, when truthy, its references are
\* listed; .values() of None raises.
GetIvyProducts ==
  /\ pc = "ivy"
  /\ IF IvyProductsTruthy(ivy_products)
     THEN IF ivy_products = Null
          THEN pc' = "index_raised" /\ refs_todo' = <<>>
          ELSE /\ refs_todo' = RefsOfConfs(ivy_products[1], DOMAIN ivy_products[1])
               /\ pc' = "refs"
     ELSE pc' = "refs" /\ refs_todo' = <<>>
  /\ UNCHANGED <<run_targets, jar_dependencies, set_order, classes_by_target, ivy_products,
                 ivy_resolve_symlink_map, symlink_map_lock, all_symlinks_map,
                 jarlibs_by_id, targets_by_file, opened, closure_vars, boot_vars>>

\* register_transitive_jars_for_ref(ivyinfo, ref), lines 95-114, for the next
\* reference of the loops of lines 118-121.
RegisterTransitiveJarsForRef ==
  /\ pc = "refs"
  /\ refs_todo # <<>>
  /\ LET ivyinfo == Head(refs_todo)[1]
         ref == Head(refs_todo)[2]
         target_key == RefKey(ref)
     IN  IF target_key \in DOMAIN jarlibs_by_id
         THEN LET jarlib_targets == jarlibs_by_id[target_key]
                  owners == SelectSeq(set_order, LAMBDA t : t \in jarlib_targets)
                  jars == get_transitive_jars_by_ref(ivyinfo, ref)
              IN  /\ targets_by_file' = RegisterJars(targets_by_file, jars, owners)
                  /\ opened' = OpenedAfter(jars, jarlib_targets)
         ELSE UNCHANGED <<targets_by_file, opened>>
  /\ refs_todo' = Tail(refs_todo)
  /\ UNCHANGED <<pc, run_targets, jar_dependencies, set_order, classes_by_target,
                 ivy_products, ivy_resolve_symlink_map, symlink_map_lock,
                 all_symlinks_map, jarlibs_by_id, closure_vars, boot_vars>>

\* Line 123.
ReturnIndex ==
  /\ pc = "refs"
  /\ refs_todo = <<>>
  /\ pc' = "index_done"
  /\ UNCHANGED <<index_vars, closure_vars, boot_vars>>

\* Another task of the build (an ivy resolve) records a resolved jar in the live
\* map, holding symlink_map_lock as every user of the map does.  Lines 57-86
\* neither read nor write the live map, so an update made while they run is the
\* same update made right before line 90.
ResolverUpdatesSymlinkMap ==
  /\ pc \in {"lock", "copy", "unlock", "ivy", "refs", "index_done"}
  /\ symlink_map_lock = "free"
  /\ ivy_resolve_symlink_map # Null
  /\ LET live == ivy_resolve_symlink_map[1] IN
     \E r \in Refs :
       LET real == RealPath(Artifact(r)) IN
         /\ real \notin DOMAIN live
         /\ ivy_resolve_symlink_map' =
              Some([p \in DOMAIN live \cup {real} |->
                      IF p = real THEN ResolvedLink(r) ELSE live[p]])
  /\ UNCHANGED <<pc, run_targets, jar_dependencies, set_order, classes_by_target,
                 ivy_products, symlink_map_lock, all_symlinks_map, jarlibs_by_id,
                 targets_by_file, refs_todo, opened, closure_vars, boot_vars>>

IndexNext ==
  \/ MapSources \/ MapClasses \/ AcquireLock \/ CopySymlinkMap \/ ReleaseLock
  \/ GetIvyProducts \/ RegisterTransitiveJarsForRef \/ ReturnIndex
  \/ ResolverUpdatesSymlinkMap

IndexSpec == IndexInit /\ [][IndexNext]_vars

(***************************************************************************)
(* Claims about targets_by_file.                                           *)
(***************************************************************************)
\* The (key, owner) pairs of the index.
IndexPairs ==
  UNION {{<<k, t>> : t \in Range(targets_by_file[k])} : k \in DOMAIN targets_by_file}

\* The pairs a target registers directly: its declared sources and those of its
\* java_sources (by absolute path), and its compiled outputs (by bare relative
\* path and by path joined to the output directory).
SourcePairs ==
  UNION {{<<PathJoin(buildroot, src), t>> : src \in Range(sources_relative_to_buildroot(t))} :
           t \in Range(run_targets) \cap JvmTargets}

JavaSourcePairs ==
  UNION {UNION {{<<PathJoin(buildroot, src), t>> :
                   src \in Range(sources_relative_to_buildroot(j))} :
                  j \in Range(JavaSourcesOf(t))} :
           t \in Range(run_targets) \cap ScalaLibraries}

ClassPairs ==
  UNION {UNION {{<<cls, item[1]>>, <<PathJoin(item[2], cls), item[1]>>} :
                  cls \in Range(item[3])} :
           item \in Range(classes_by_target)}

DirectPairs == SourcePairs \cup JavaSourcePairs \cup ClassPairs

\* The JarLibrary targets of the run that declare a jar of this (org, name).
Declaring(key) ==
  {t \in Range(run_targets) \cap (JarLibraries \ JvmTargets) : key \in jar_dependencies[t]}

\* The (ivyinfo, ref) pairs of the resolution report.
ReportedRefs ==
  IF ivy_products = Null THEN {}
  ELSE UNION {UNION {{<<info, r>> : r \in Range(info.modules_by_ref)} :
                       info \in Range(ivy_products[1][c])} :
                c \in DOMAIN ivy_products[1]}

\* The archives of the transitive archive set of a reported reference.
ArchivesOf(p) == {Artifact(r) : r \in ModuleClosure(p[1].deps, {p[2]})}

\* The .class entries of an archive.
ClassEntries(a) == {n \in Range(namelist(a)) : EndsWith(n, ".class")}

\* The pairs jar resolution yields from a symlink map: the .class entries of every
\* archive that has an entry in the map, in the transitive archive set of a
\* reported reference, owned by each target that declares that reference.
JarPairs(symlinks) ==
  UNION {UNION {{<<cls, t>> : cls \in ClassEntries(a), t \in Declaring(RefKey(p[2]))} :
                  a \in {a \in ArchivesOf(p) : RealPath(a) \in DOMAIN symlinks}} :
           p \in ReportedRefs}

\* C2: every target T is an owner of every key k it registers directly, and
\* stands before every owner of k that owns it only through jar resolution.
C2_DirectOwnerBeforeJarOwners ==
  pc = "index_done" =>
    \A p \in DirectPairs :
      /\ p[1] \in DOMAIN targets_by_file
      /\ p[2] \in Range(targets_by_file[p[1]])
      /\ \A u \in Range(targets_by_file[p[1]]) :
           <<p[1], u>> \notin DirectPairs =>
             IndexOf(targets_by_file[p[1]], p[2]) < IndexOf(targets_by_file[p[1]], u)

C2_Witness ==
  /\ pc = "index_done"
  /\ \E p \in DirectPairs : \E u \in Range(targets_by_file[p[1]]) :
       /\ <<p[1], u>> \notin DirectPairs
       /\ targets_by_file[p[1]][1] = p[2]

\* C3: for a class entry found in one jar only, when a target declaring that
\* jar's own (org, name) is among its owners, a declaring target is the first of
\* its jar-derived owners, whatever the iteration orders.
C3_CanonicalOwnerFirst ==
  pc = "index_done" =>
    \A p \in ReportedRefs : \A cls \in ClassEntries(Artifact(p[2])) :
      (/\ \A q \in Refs \ {p[2]} : cls \notin ClassEntries(Artifact(q))
       /\ cls \in DOMAIN targets_by_file
       /\ Range(targets_by_file[cls]) \cap Declaring(RefKey(p[2])) # {})
      => LET jar_owners == SelectSeq(targets_by_file[cls],
                                     LAMBDA t : <<cls, t>> \notin DirectPairs)
         IN  jar_owners[1] \in Declaring(RefKey(p[2]))

\* C5: the copy is made while the lock is held and equals the live map at that
\* instant, the live map changes only while the lock is free, the copy never
\* changes afterwards, and the returned index is the one the copy determines,
\* whatever was recorded in the live map after the lock was released.
C5_SnapshotUnderLock ==
  [][/\ (all_symlinks_map' # all_symlinks_map =>
            (/\ symlink_map_lock = "analyzer"
             /\ all_symlinks_map = Null
             /\ all_symlinks_map' = Some(CopyOf(ivy_resolve_symlink_map))
             /\ ivy_resolve_symlink_map' = ivy_resolve_symlink_map))
     /\ (ivy_resolve_symlink_map' # ivy_resolve_symlink_map => symlink_map_lock = "free")
     /\ (pc' = "index_done" =>
            (IndexPairs' = DirectPairs' \cup JarPairs(all_symlinks_map[1])'))]_vars

C5_Witness ==
  /\ pc = "index_done"
  /\ ivy_resolve_symlink_map # Null
  /\ ivy_resolve_symlink_map # all_symlinks_map
  /\ JarPairs(ivy_resolve_symlink_map[1]) # JarPairs(all_symlinks_map[1])
  /\ JarPairs(all_symlinks_map[1]) # {}

\* C6: with the resolution report absent or empty the build ends without an
\* error and the index holds exactly the direct registrations.
C6_NoReportOnlyDirect ==
  (ivy_products = Null \/ ivy_products = Some(<<>>)) =>
    /\ pc # "index_raised"
    /\ pc = "index_done" => IndexPairs = DirectPairs

C6_Witness ==
  /\ pc = "index_done"
  /\ ivy_products = Null
  /\ DirectPairs # {}
  /\ \E k \in RefKeys : Declaring(k) # {}
  /\ all_symlinks_map # Some(<<>>)
  /\ opened = <<>>

\* C7: during one build of the index the listing of each archive path is read
\* from the archive at most once, also when the archive is in the transitive
\* archive set of several module references or is reported more than once.
C7_Original == pc = "index_done" => \A p \in DOMAIN opened : opened[p] <= 1

\* C8: for every reported reference R with a declaring target and every archive A
\* of its transitive archive set: with an entry for A in the snapshot, every
\* .class entry of A is owned by every target declaring R; and every owner that
\* is not a direct one comes from such an archive with an entry, so an archive
\* without one registers nothing and the build still ends.
C8_ArchiveClassesOwnedByDeclarers ==
  /\ pc # "index_raised"
  /\ pc = "index_done" =>
       /\ \A p \in ReportedRefs : \A a \in ArchivesOf(p) :
            RealPath(a) \in DOMAIN all_symlinks_map[1] =>
              \A cls \in ClassEntries(a) : \A t \in Declaring(RefKey(p[2])) :
                /\ cls \in DOMAIN targets_by_file
                /\ t \in Range(targets_by_file[cls])
       /\ \A x \in IndexPairs \ DirectPairs :
            \E p \in ReportedRefs : \E a \in ArchivesOf(p) :
              /\ RealPath(a) \in DOMAIN all_symlinks_map[1]
              /\ x[1] \in ClassEntries(a)
              /\ x[2] \in Declaring(RefKey(p[2]))

C8_Witness ==
  /\ pc = "index_done"
  /\ \E p \in ReportedRefs : \E a, b \in ArchivesOf(p) :
       /\ Declaring(RefKey(p[2])) # {}
       /\ RealPath(a) \in DOMAIN all_symlinks_map[1]
       /\ RealPath(b) \notin DOMAIN all_symlinks_map[1]
       /\ \A cls \in ClassEntries(a) : \A t \in Declaring(RefKey(p[2])) :
            <<cls, t>> \in IndexPairs
       /\ \E cls \in ClassEntries(b) : cls \notin DOMAIN targets_by_file

(***************************************************************************)
(*                      bootstrap_jar_classfiles                           *)
(***************************************************************************)
\* str.split(':')
RECURSIVE SplitAt(_, _, _)
SplitAt(s, i, start) ==
  IF i > Len(s) THEN <<SubSeq(s, start, Len(s))>>
  ELSE IF SubSeq(s, i, i) = ":"
       THEN <<SubSeq(s, start, i - 1)>> \o SplitAt(s, i + 1, i + 1)
       ELSE SplitAt(s, i + 1, start)

Split(s) == SplitAt(s, 1, 1)

\* get_path, lines 142-143: dict.get(key, '') and the split.
get_path(props, key) == Split(IF key \in DOMAIN props THEN props[key] ELSE "")

\* An entry of the file system: the directory it is in, its name, its kind.
Entry(dir, name, kind) == [dir |-> dir, name |-> name, kind |-> kind]

\* The path by which the operating system finds what a process names: a
\* relative name is resolved against the working directory.
AbsPath(dir, path) == IF path = "" THEN "" ELSE PathJoin(dir, path)

\* os.path.isdir
isdir(files, dir, path) ==
  LET p == AbsPath(dir, path) IN
    \/ \E e \in files : e.kind = "dir" /\ PathJoin(e.dir, e.name) = p
    \/ \E e \in files : e.dir = p

\* os.path.isfile
isfile(files, dir, path) ==
  \E e \in files : e.kind = "file" /\ AbsPath(dir, path) = PathJoin(e.dir, e.name)

\* os.listdir: the bare names of the entries of a directory, in the order the
\* file system yields them (order[d] for the directory d; a directory without
\* entries has none).
listdir(files, dir, path, order) ==
  IF AbsPath(dir, path) \in DOMAIN order THEN order[AbsPath(dir, path)] ELSE <<>>

\* The orders in which os.listdir may yield the names: any order of the names of
\* each of the directories D.
RECURSIVE ListdirOrders(_, _)
ListdirOrders(files, D) ==
  IF D = {} THEN {<<>>}
  ELSE LET d == CHOOSE x \in D : TRUE IN
       {[x \in D |-> IF x = d THEN names ELSE rest[x]] :
          names \in Perms({e.name : e \in {f \in files : f.dir = d}}),
          rest \in ListdirOrders(files, D \ {d})}

\* find_jars_in_dirs, lines 145-150.
RECURSIVE find_jars_in_dirs(_, _, _, _)
find_jars_in_dirs(files, dir, order, dirs) ==
  IF dirs = <<>> THEN <<>>
  ELSE (IF isdir(files, dir, Head(dirs))
        THEN SelectSeq(listdir(files, dir, Head(dirs), order),
                       LAMBDA n : EndsWith(n, ".jar"))
        ELSE <<>>)
       \o find_jars_in_dirs(files, dir, order, Tail(dirs))

\* _find_all_bootstrap_jars, lines 141-164.
find_all_bootstrap_jars(props, files, dir, order) ==
  LET boot_classpath == get_path(props, "sun.boot.class.path")
      override_jars ==
        find_jars_in_dirs(files, dir, order, get_path(props, "java.endorsed.dirs"))
      extension_jars ==
        find_jars_in_dirs(files, dir, order, get_path(props, "java.ext.dirs"))
  IN  SelectSeq(override_jars \o boot_classpath \o extension_jars,
                LAMBDA jar : isfile(files, dir, jar))

(***************************************************************************)
(* The inputs of one evaluation of bootstrap_jar_classfiles.               *)
(***************************************************************************)
JvmEntries ==
  { Entry("/jdk/endorsed", "e.jar", "file"),
    Entry("/jdk/ext", "x.jar", "file"),
    Entry("/jdk/ext", "y.jar", "file"),
    Entry("/jdk/ext", "notes.txt", "file"),
    Entry("/jdk/ext", "d.jar", "dir"),
    Entry("/jdk/lib", "rt.jar", "file"),
    Entry("/jdk", "classes", "dir"),
    Entry("/work", "x.jar", "file") }

SystemPropertiesChoices ==
  { [k \in K |-> IF k = "sun.boot.class.path" THEN b
                 ELSE IF k = "java.endorsed.dirs" THEN "/jdk/endorsed"
                 ELSE x] :
      K \in { {"sun.boot.class.path"},
              {"sun.boot.class.path", "java.ext.dirs"},
              {"sun.boot.class.path", "java.ext.dirs", "java.endorsed.dirs"} },
      b \in {"/jdk/lib/rt.jar", "/jdk/lib/rt.jar:/jdk/classes"},
      x \in {"/jdk/ext", "/jdk/none:/jdk/ext"} }

BootInit ==
  /\ pc = "boot_start"
  /\ system_properties \in SystemPropertiesChoices
  /\ fs \in SUBSET JvmEntries
  /\ cwd \in {"/work", "/jdk/ext"}
  /\ listdir_order \in ListdirOrders(fs, {e.dir : e \in fs})
  /\ bootstrap_jars = <<>>
  /\ next_jar = 0
  /\ bootstrap_jar_classfiles = {}
  /\ ClosureIdle
  /\ IndexIdle

\* Lines 135-136: the empty set, and the list the loop iterates.
FindAllBootstrapJars ==
  /\ pc = "boot_start"
  /\ bootstrap_jars' = find_all_bootstrap_jars(system_properties, fs, cwd, listdir_order)
  /\ next_jar' = 1
  /\ bootstrap_jar_classfiles' = {}
  /\ pc' = "boot_loop"
  /\ UNCHANGED <<system_properties, fs, cwd, listdir_order, closure_vars, index_vars>>

\* Lines 136-138, one jar_file: open_zip resolves the name as the process does.
ReadBootstrapJar ==
  /\ pc = "boot_loop"
  /\ next_jar <= Len(bootstrap_jars)
  /\ bootstrap_jar_classfiles' =
       bootstrap_jar_classfiles
         \cup Range(jar_classfiles(AbsPath(cwd, bootstrap_jars[next_jar])))
  /\ next_jar' = next_jar + 1
  /\ UNCHANGED <<pc, system_properties, fs, cwd, listdir_order, bootstrap_jars,
                 closure_vars, index_vars>>

\* Line 139.
ReturnBootstrap ==
  /\ pc = "boot_loop"
  /\ next_jar > Len(bootstrap_jars)
  /\ pc' = "boot_done"
  /\ UNCHANGED <<boot_vars, closure_vars, index_vars>>

BootNext == FindAllBootstrapJars \/ ReadBootstrapJar \/ ReturnBootstrap

BootSpec == BootInit /\ [][BootNext]_vars

(***************************************************************************)
(* Claims about bootstrap_jar_classfiles.                                  *)
(***************************************************************************)
\* The directories a system property names that exist.
NamedDirs(key) ==
  {d \in Range(get_path(system_properties, key)) : isdir(fs, cwd, d)}

\* The jars that are regular files in an endorsed directory, on the boot class
\* path, or in an extension directory.
JvmBootstrapJars ==
  {PathJoin(e.dir, e.name) :
     e \in {f \in fs : /\ f.kind = "file"
                       /\ EndsWith(f.name, ".jar")
                       /\ f.dir \in NamedDirs("java.endorsed.dirs")
                                      \cup NamedDirs("java.ext.dirs")}}
  \cup {p \in Range(get_path(system_properties, "sun.boot.class.path")) : isfile(fs, cwd, p)}

JvmBootstrapClasses ==
  UNION {{cls \in Range(namelist(jar)) : EndsWith(cls, ".class")} : jar \in JvmBootstrapJars}

\* C9: bootstrap_jar_classfiles is exactly the set of the .class entries of every
\* jar that is a regular file in a directory of java.endorsed.dirs, on
\* sun.boot.class.path, or in a directory of java.ext.dirs.
C9_BootstrapClassesOfAllJvmJars ==
  pc = "boot_done" => bootstrap_jar_classfiles = JvmBootstrapClasses

=============================================================================
